---- MODULE Spec2Model ----
(***************************************************************************)
(* Model of src/src/server.js: the express upload server (multer disk      *)
(* storage, the per-address map uploadSessions, the listing and retrieval  *)
(* routes and the global error handler).                                   *)
(*                                                                         *)
(* Text is a sequence of one-character strings, so that the regular        *)
(* expression of fileFilter, path.extname, path.join and String.indexOf    *)
(* are computed character by character as the code computes them.          *)
(***************************************************************************)
EXTENDS Integers, Sequences, FiniteSets, TLC

\* ---------------------------------------------------------------- bounds
\* number of POST /upload requests of one run
MaxReqs == 2
\* last value of the millisecond clock Date.now()
MaxTime == 2
\* largest value Math.round(Math.random() * 1E9) takes in a run
MaxRandom == 1
\* longest original file name given to fileFilter in FilterSpec
MaxNameLen == 5
\* number of values of Math.random() taken at each end of its range in
\* NameSpec
MaxDraw == 4
\* number of runs of handleUpload in the browser page
MaxRuns == 3

\* ------------------------------------------------------- text primitives
UpperCase == <<"A","B","C","D","E","F","G","H","I","J","K","L","M",
               "N","O","P","Q","R","S","T","U","V","W","X","Y","Z">>
LowerCase == <<"a","b","c","d","e","f","g","h","i","j","k","l","m",
               "n","o","p","q","r","s","t","u","v","w","x","y","z">>

\* canonical form of a character under the /i flag of a regular expression
ToLower(c) ==
    IF \E i \in 1..26 : UpperCase[i] = c
    THEN LowerCase[CHOOSE i \in 1..26 : UpperCase[i] = c]
    ELSE c

DigitChars == <<"0","1","2","3","4","5","6","7","8","9">>

RECURSIVE ToStr(_)
\* decimal text of a non-negative integer, as a template literal prints it
ToStr(n) ==
    IF n < 10 THEN <<DigitChars[n + 1]>>
    ELSE ToStr(n \div 10) \o <<DigitChars[(n % 10) + 1]>>

\* String.prototype.indexOf(needle): first 0-based position, -1 if none
IndexOf(hay, needle) ==
    LET hits == { i \in 0..(Len(hay) - Len(needle)) :
                    \A k \in 1..Len(needle) : hay[i + k] = needle[k] }
    IN IF hits = {} THEN -1
       ELSE CHOOSE i \in hits : \A j \in hits : i <= j

RECURSIVE SplitFrom(_, _, _)
\* segments of s between "/" characters, scanning from position i with the
\* segment cur being collected
SplitFrom(s, i, cur) ==
    IF i > Len(s) THEN <<cur>>
    ELSE IF s[i] = "/" THEN <<cur>> \o SplitFrom(s, i + 1, <<>>)
    ELSE SplitFrom(s, i + 1, Append(cur, s[i]))

Split(s) == SplitFrom(s, 1, <<>>)

RECURSIVE JoinSegs(_)
\* segments joined with "/"
JoinSegs(segs) ==
    IF segs = <<>> THEN <<>>
    ELSE IF Len(segs) = 1 THEN segs[1]
    ELSE segs[1] \o <<"/">> \o JoinSegs(Tail(segs))

DotDot == <<".", ".">>

RECURSIVE NormalizeSegs(_, _, _)
\* normalizeString of node's path module: "" and "." are dropped, ".."
\* removes the segment before it; above the root it is dropped when the
\* path is absolute and kept when it is relative
NormalizeSegs(segs, res, allowAboveRoot) ==
    IF segs = <<>> THEN res
    ELSE LET s == Head(segs) IN
         IF s = <<>> \/ s = <<".">>
         THEN NormalizeSegs(Tail(segs), res, allowAboveRoot)
         ELSE IF s = DotDot
         THEN IF res # <<>> /\ res[Len(res)] # DotDot
              THEN NormalizeSegs(Tail(segs), SubSeq(res, 1, Len(res) - 1),
                                 allowAboveRoot)
              ELSE IF allowAboveRoot
              THEN NormalizeSegs(Tail(segs), Append(res, s), allowAboveRoot)
              ELSE NormalizeSegs(Tail(segs), res, allowAboveRoot)
         ELSE NormalizeSegs(Tail(segs), Append(res, s), allowAboveRoot)

\* path.normalize (posix)
Normalize(p) ==
    IF p = <<>> THEN <<".">>
    ELSE LET isAbsolute == p[1] = "/"
             trailing   == p[Len(p)] = "/"
             body == JoinSegs(NormalizeSegs(Split(p), <<>>, ~isAbsolute))
             body1 == IF body = <<>> /\ ~isAbsolute THEN <<".">> ELSE body
             body2 == IF body1 # <<>> /\ trailing
                      THEN body1 \o <<"/">> ELSE body1
         IN IF isAbsolute THEN <<"/">> \o body2 ELSE body2

\* path.join(a, b) for non-empty a
PathJoin(a, b) ==
    IF b = <<>> THEN Normalize(a) ELSE Normalize(a \o <<"/">> \o b)

\* path.extname of a name without separators: from the last "." to the end;
\* empty when there is no ".", when the only "." is the first character, and
\* for ".."
ExtName(name) ==
    LET dots == { i \in 1..Len(name) : name[i] = "." } IN
    IF dots = {} THEN <<>>
    ELSE LET d == CHOOSE i \in dots : \A j \in dots : j <= i IN
         IF d = 1 \/ name = DotDot THEN <<>>
         ELSE SubSeq(name, d, Len(name))

\* ------------------------------------------------- constants of the code
\* limits.fileSize: 10 * 1024 * 1024
fileSize == 10485760

allowedTypes == {"image/jpeg", "image/jpg", "image/png", "image/gif",
                 "image/webp", "model/gltf", "model/glb", "model/obj"}

\* the alternatives of /\.(jpg|jpeg|png|gif|webp|gltf|glb|obj)$/i
allowedExts == { <<"j","p","g">>, <<"j","p","e","g">>, <<"p","n","g">>,
                 <<"g","i","f">>, <<"w","e","b","p">>, <<"g","l","t","f">>,
                 <<"g","l","b">>, <<"o","b","j">> }

\* __dirname, the directory of server.js: /r/s
dirname == <<"/","r","/","s">>

\* path.join(__dirname, '../public/uploads') with public = p, uploads = u
uploadDir == PathJoin(dirname, <<".",".","/","p","/","u">>)

\* path.join(__dirname, '../public'), the root of express.static
publicDir == PathJoin(dirname, <<".",".","/","p">>)

NoContent == [data |-> "none", size |-> -1]

\* what createWriteStream leaves in a file it has opened and not yet filled
EmptyContent == [data |-> "", size |-> 0]

\* files of the machine outside the storage directory: the landing page
\* /r/p/i, a file /r/p/uz/s in a sibling directory of the storage directory
\* whose name begins like it, and /e outside the application
OtherFiles ==
    ( <<"/","r","/","p","/","i">> :> [data |-> "index", size |-> 3] ) @@
    ( <<"/","r","/","p","/","u","z","/","s">> :>
                                      [data |-> "sibling", size |-> 4] ) @@
    ( <<"/","e">> :> [data |-> "etc", size |-> 5] )

Directories == { <<"/">>, <<"/","r">>, dirname, publicDir, uploadDir,
                 <<"/","r","/","p","/","u","z">> }

\* ------------------------------------------------------------ fileFilter
\* String.match of the extension pattern: some "." of the name is followed,
\* up to the end of the name, by one of the alternatives, letters compared
\* without case
MatchExt(originalname) ==
    \E i \in 1..Len(originalname) :
        /\ originalname[i] = "."
        /\ \E e \in allowedExts :
              /\ Len(originalname) - i = Len(e)
              /\ \A k \in 1..Len(e) : ToLower(originalname[i + k]) = e[k]

\* fileFilter with && in the place of ||
fileFilterBoth(file) ==
    (\E type \in allowedTypes : file.mimetype = type)
        /\ MatchExt(file.originalname)

\* the decision of fileFilter: TRUE for cb(null, true), FALSE for cb(Error)
fileFilter(file) ==
    (\E type \in allowedTypes : file.mimetype = type)
        \/ MatchExt(file.originalname)

\* 1E9, the factor of Math.random() in storage.filename
RandomScale == 1000000000

\* Math.random() is taken in steps of 1 / (2 * 1E9): the draw h stands for
\* the number h / RandomSteps, 0 <= h < RandomSteps, which is in [0, 1)
RandomSteps == 2 * RandomScale

\* Math.round(h / RandomSteps * 1E9): h / 2 rounded to the nearest integer,
\* a half rounded up
RoundRandom(h) == (h + 1) \div 2

\* storage.filename: `${timestamp}-${random}${extension}`
filename(timestamp, random, file) ==
    ToStr(timestamp) \o <<"-">> \o ToStr(random) \o ExtName(file.originalname)

\* ----------------------------------------------------- inputs of the run
Clients == {"ip1", "ip2"}

Reqs == 1..MaxReqs

NoFile == [originalname |-> <<>>, mimetype |-> "", data |-> "none", size |-> -1]

\* the files a request of the run may carry
Files == {
    [originalname |-> <<"a",".","p","n","g">>, mimetype |-> "image/png",
     data |-> "d1", size |-> 1],
    [originalname |-> <<"b",".","P","N","G">>, mimetype |-> "text/plain",
     data |-> "d2", size |-> fileSize],
    [originalname |-> <<"c",".","t","x","t">>, mimetype |-> "text/plain",
     data |-> "d1", size |-> 1],
    [originalname |-> <<"a",".","p","n","g">>, mimetype |-> "image/png",
     data |-> "d2", size |-> fileSize + 1],
    [originalname |-> <<"c",".","t","x","t">>, mimetype |-> "text/plain",
     data |-> "d2", size |-> fileSize + 1] }

\* names a GET /uploads/:filename of the run may ask for besides the stored
\* ones (req.params.filename, already percent-decoded by the router)
ProbeNames == {
    <<"x">>,
    <<".",".","/","i">>,
    <<".",".","/",".",".","/",".",".","/","e">>,
    <<".",".","/","u","z","/","s">> }

\* ------------------------------------------------------------ responses
NoResp == [status |-> 0, success |-> FALSE, error |-> "", filename |-> <<>>,
           url |-> <<>>, size |-> -1]

ErrResp(status, error) ==
    [status |-> status, success |-> FALSE, error |-> error,
     filename |-> <<>>, url |-> <<>>, size |-> -1]

MsgBusy     == "Upload already in progress. Please wait."
MsgNoFile   == "No file uploaded or invalid file type"
MsgTooLarge == "File too large. Maximum size is 10MB."
MsgUpload   == "Upload error"
MsgInternal == "Internal server error"

\* the errors that reach the global error handler
FilterError == [multer |-> FALSE, code |-> ""]
LimitError  == [multer |-> TRUE,  code |-> "LIMIT_FILE_SIZE"]
ThrownError == [multer |-> FALSE, code |-> "ENOENT"]

\* the global error handler
ErrorHandler(error) ==
    IF error.multer
    THEN IF error.code = "LIMIT_FILE_SIZE"
         THEN ErrResp(400, MsgTooLarge)
         ELSE ErrResp(400, MsgUpload)
    ELSE ErrResp(500, MsgInternal)

\* `/uploads/${name}`
UrlOf(name) == <<"/","u","p","l","o","a","d","s","/">> \o name

\* ----------------------------------------------------------------- state
VARIABLES
    now,             \* Date.now()
    uploadSessions,  \* the Map: client address -> sessionId
    disk,            \* the storage directory: stored name -> content
    reqs,            \* the POST /upload requests: position, input, answer
    listing,         \* the names fs.readdir has read for a GET /uploads
    listResp,        \* the answer of GET /uploads sent by the last step
    getResp,         \* the answer of GET /uploads/:filename sent by the
                     \* last step
    crashed,         \* the process ended on an uncaught exception
    probe,           \* the last file given to fileFilter on its own
    named,           \* the last name made by storage.filename on its own
    isUploading,     \* the flag of the page script
    uploadBtn,       \* the upload button of the page: disabled, text
    fileInput,       \* the file input of the page has a selected file
    runs             \* the runs of handleUpload: position, outcome

vars == <<now, uploadSessions, disk, reqs, listing, listResp, getResp,
          crashed, probe, named, isUploading, uploadBtn, fileInput, runs>>

pageVars == <<isUploading, uploadBtn, fileInput, runs>>

serverVars == <<now, uploadSessions, disk, reqs, listing, listResp, getResp,
                crashed>>

NoListing == [active |-> FALSE, names |-> {}]
NoListResp == [status |-> 0, count |-> -1, files |-> {}]
NoGetResp == [name |-> <<>>, status |-> 0, path |-> <<>>, body |-> NoContent]
NoProbe == [file |-> NoFile, accepted |-> FALSE]
\* a run of handleUpload that has not begun: pc is "new" before the call,
\* "fetch" while fetch() of uploadPhoto is pending, "json" and "errjson"
\* while response.json() of an ok and of a failed response is pending,
\* "image" while the image of displayImageInCanvas loads, "done" after the
\* return; originalText is the text the button had when the run began
Runs == 1..MaxRuns
NewRun == [pc |-> "new", via |-> "", outcome |-> "", originalText |-> ""]

NoNamed == [timestamp |-> 0, draw |-> -1, random |-> -1,
            originalname |-> <<>>, filename |-> <<>>]

\* a request that has not arrived: pc is "new" before arrival, "writing"
\* while multer streams the file to the storage directory, "handler" when
\* multer has called next(), "done" once answered; overlap is the set of
\* requests of the same address that were in flight when this one arrived and
\* hadEntry tells whether the map had the address at that moment
NewReq == [pc |-> "new", ip |-> "", file |-> NoFile, filename |-> <<>>,
           resp |-> NoResp, overlap |-> {}, hadEntry |-> FALSE]

Init ==
    /\ now = 1
    /\ uploadSessions = << >>
    /\ disk = << >>
    /\ reqs = [r \in Reqs |-> NewReq]
    /\ listing = NoListing
    /\ listResp = NoListResp
    /\ getResp = NoGetResp
    /\ crashed = FALSE
    /\ probe = NoProbe
    /\ named = NoNamed
    /\ isUploading = FALSE
    /\ uploadBtn = [disabled |-> FALSE, textContent |-> "Upload & Display"]
    /\ fileInput = FALSE
    /\ runs = [h \in Runs |-> NewRun]

\* a step that answers no GET request
NoAnswer == listResp' = NoListResp /\ getResp' = NoGetResp

InFlight(r) == reqs[r].pc \in {"writing", "handler"}

\* Map.delete / fs.unlink: the function without the key k
Without(f, k) == [x \in (DOMAIN f) \ {k} |-> f[x]]

\* Map.set / a completed write: the function with k bound to v
With(f, k, v) == [x \in (DOMAIN f) \cup {k} |-> IF x = k THEN v ELSE f[x]]

\* ------------------------------------------------------------ POST /upload
\* The millisecond clock advances.
Tick ==
    /\ ~crashed
    /\ now < MaxTime
    /\ now' = now + 1
    /\ NoAnswer
    /\ UNCHANGED <<uploadSessions, disk, reqs, listing, crashed, probe, named, pageVars>>

\* A request reaches upload.single('file'), which runs before the route
\* handler: a request without a file goes on to the handler; fileFilter
\* rejects the file with a plain Error that goes to the global error
\* handler; or the file is accepted, storage.filename names it and the disk
\* storage opens the file in the storage directory.
Arrive(r) ==
    /\ ~crashed
    /\ reqs[r].pc = "new"
    /\ \A q \in Reqs : q < r => reqs[q].pc # "new"
    /\ \E ip \in Clients, file \in Files \cup {NoFile}, random \in 0..MaxRandom :
         LET over == { q \in Reqs : InFlight(q) /\ reqs[q].ip = ip }
             base == [reqs[r] EXCEPT !.ip = ip, !.file = file, !.overlap = over,
                                     !.hadEntry = ip \in DOMAIN uploadSessions]
         IN IF file = NoFile
            THEN /\ random = 0
                 /\ reqs' = [reqs EXCEPT ![r] = [base EXCEPT !.pc = "handler"]]
                 /\ disk' = disk
            ELSE IF ~fileFilter(file)
            THEN /\ random = 0
                 /\ reqs' = [reqs EXCEPT ![r] =
                               [base EXCEPT !.pc = "done",
                                            !.resp = ErrorHandler(FilterError)]]
                 /\ disk' = disk
            ELSE LET name == filename(now, random, file) IN
                 /\ reqs' = [reqs EXCEPT ![r] =
                               [base EXCEPT !.pc = "writing", !.filename = name]]
                 /\ disk' = With(disk, name, EmptyContent)
    /\ NoAnswer
    /\ UNCHANGED <<now, uploadSessions, listing, crashed, probe, named, pageVars>>

\* The file stream of a request ends: a file longer than limits.fileSize
\* raised 'limit', multer removes the file it was writing and passes the
\* MulterError LIMIT_FILE_SIZE to the global error handler; otherwise the
\* file is complete, req.file is set and next() is called.
MulterWrite(r) ==
    /\ ~crashed
    /\ reqs[r].pc = "writing"
    /\ IF reqs[r].file.size > fileSize
       THEN /\ disk' = Without(disk, reqs[r].filename)
            /\ reqs' = [reqs EXCEPT ![r].pc = "done",
                                    ![r].resp = ErrorHandler(LimitError)]
       ELSE /\ disk' = With(disk, reqs[r].filename,
                            [data |-> reqs[r].file.data,
                             size |-> reqs[r].file.size])
            /\ reqs' = [reqs EXCEPT ![r].pc = "handler"]
    /\ NoAnswer
    /\ UNCHANGED <<now, uploadSessions, listing, crashed, probe, named, pageVars>>

\* the result object of a successful upload
Result(r) ==
    [status |-> 200, success |-> TRUE, error |-> "",
     filename |-> reqs[r].filename, url |-> UrlOf(reqs[r].filename),
     size |-> reqs[r].file.size]

\* The route handler of POST /upload, one synchronous run: 429 when the map
\* has the address; otherwise the entry is set, the stored file is looked at
\* (fs.statSync throws when the file cannot be read any more, and the
\* exception goes to the global error handler with the entry left in the
\* map), then the entry is deleted and the request answered 400 without a
\* file and 200 with one.
Handler(r) ==
    /\ ~crashed
    /\ reqs[r].pc = "handler"
    /\ \E statThrows \in BOOLEAN :
         LET ip == reqs[r].ip
             hasFile == reqs[r].file # NoFile
             sessionId == <<ip, now>>
         IN IF ip \in DOMAIN uploadSessions
            THEN /\ ~statThrows
                 /\ uploadSessions' = uploadSessions
                 /\ reqs' = [reqs EXCEPT ![r].pc = "done",
                                         ![r].resp = ErrResp(429, MsgBusy)]
            ELSE IF hasFile /\ reqs[r].filename \in DOMAIN disk /\ statThrows
            THEN /\ uploadSessions' = With(uploadSessions, ip, sessionId)
                 /\ reqs' = [reqs EXCEPT ![r].pc = "done",
                                         ![r].resp = ErrorHandler(ThrownError)]
            ELSE IF ~hasFile
            THEN /\ ~statThrows
                 /\ uploadSessions' =
                        Without(With(uploadSessions, ip, sessionId), ip)
                 /\ reqs' = [reqs EXCEPT ![r].pc = "done",
                                         ![r].resp = ErrResp(400, MsgNoFile)]
            ELSE /\ ~statThrows
                 /\ uploadSessions' =
                        Without(With(uploadSessions, ip, sessionId), ip)
                 /\ reqs' = [reqs EXCEPT ![r].pc = "done",
                                         ![r].resp = Result(r)]
    /\ NoAnswer
    /\ UNCHANGED <<now, disk, listing, crashed, probe, named, pageVars>>

\* ------------------------------------------------------------ GET /uploads
\* fs.readdir reads the names of the storage directory.
ListStart ==
    /\ ~crashed
    /\ ~listing.active
    /\ listing' = [active |-> TRUE, names |-> DOMAIN disk]
    /\ NoAnswer
    /\ UNCHANGED <<now, uploadSessions, disk, reqs, crashed, probe, named, pageVars>>

\* The callback of fs.readdir maps every name read to {name, url, size} with
\* fs.statSync and answers; a name whose file is gone by now makes statSync
\* throw inside the callback, an exception nothing catches.
ListFinish ==
    /\ ~crashed
    /\ listing.active
    /\ listing' = NoListing
    /\ IF listing.names \subseteq DOMAIN disk
       THEN /\ listResp' =
                 [status |-> 200,
                  count  |-> Cardinality(listing.names),
                  files  |-> { [name |-> n, url |-> UrlOf(n),
                                size |-> disk[n].size] : n \in listing.names }]
            /\ crashed' = FALSE
       ELSE /\ listResp' = NoListResp
            /\ crashed' = TRUE
    /\ getResp' = NoGetResp
    /\ UNCHANGED <<now, uploadSessions, disk, reqs, probe, named, pageVars>>

\* -------------------------------------------------- GET /uploads/:filename
\* the content of the file at an absolute path, NoContent when there is none
ReadFile(path) ==
    LET stored == { n \in DOMAIN disk : path = uploadDir \o <<"/">> \o n } IN
    IF stored # {} THEN disk[CHOOSE n \in stored : TRUE]
    ELSE IF path \in DOMAIN OtherFiles THEN OtherFiles[path]
    ELSE NoContent

\* fs.existsSync
ExistsSync(path) == ReadFile(path) # NoContent \/ path \in Directories

\* the file express.static(public) looks for: the request path
\* /uploads/<name> under the public directory
StaticPath(name) == PathJoin(publicDir, <<"u","/">> \o name)

\* express.static(public) answers the request itself when the request path
\* has no ".." segment and no segment beginning with "." and names a file
\* under the public directory; otherwise it calls next()
StaticServes(name) ==
    LET segs == Split(name) IN
    /\ \A i \in 1..Len(segs) : segs[i] = <<>> \/ segs[i][1] # "."
    /\ ReadFile(StaticPath(name)) # NoContent

\* the check of the route: filePath.indexOf(uploadDir) !== 0 answers 403
AccessDenied(filePath) == IndexOf(filePath, uploadDir) # 0

\* the answer to GET /uploads/<name>: express.static first, then the route
\* (403 by the prefix check, 404 when nothing exists at the joined path,
\* res.sendFile otherwise; sendFile of a directory calls next(), which ends
\* in the 404 handler)
GetResponse(name) ==
    LET filePath == PathJoin(uploadDir, name) IN
    IF StaticServes(name)
    THEN [name |-> name, status |-> 200, path |-> StaticPath(name),
          body |-> ReadFile(StaticPath(name))]
    ELSE IF AccessDenied(filePath)
    THEN [name |-> name, status |-> 403, path |-> <<>>, body |-> NoContent]
    ELSE IF ~ExistsSync(filePath)
    THEN [name |-> name, status |-> 404, path |-> <<>>, body |-> NoContent]
    ELSE IF filePath \in Directories
    THEN [name |-> name, status |-> 404, path |-> <<>>, body |-> NoContent]
    ELSE [name |-> name, status |-> 200, path |-> filePath,
          body |-> ReadFile(filePath)]

GetFile ==
    /\ ~crashed
    /\ \E name \in (DOMAIN disk) \cup ProbeNames :
           getResp' = GetResponse(name)
    /\ listResp' = NoListResp
    /\ UNCHANGED <<now, uploadSessions, disk, reqs, listing, crashed, probe, named, pageVars>>

\* ------------------------------------------------------------------- runs
Next ==
    \/ Tick
    \/ \E r \in Reqs : Arrive(r)
    \/ \E r \in Reqs : MulterWrite(r)
    \/ \E r \in Reqs : Handler(r)
    \/ ListStart
    \/ ListFinish
    \/ GetFile

Spec == Init /\ [][Next]_vars

\* ----------------------------------------------------- fileFilter alone
NameAlphabet == {".", "o", "b", "j", "O", "x"}

\* every name of at most MaxNameLen characters of the alphabet
FilterNames ==
    UNION { [1..n -> NameAlphabet] : n \in 0..MaxNameLen }

FilterMimes == {"model/obj", "text/plain", "MODEL/OBJ"}

\* fileFilter is given the one file of the run
FilterProbe ==
    /\ probe = NoProbe
    /\ \E name \in FilterNames, mime \in FilterMimes :
         LET file == [originalname |-> name, mimetype |-> mime,
                      data |-> "d1", size |-> 1]
         IN probe' = [file |-> file, accepted |-> fileFilter(file)]
    /\ UNCHANGED <<serverVars, named, pageVars>>

FilterNext == FilterProbe

FilterSpec == Init /\ [][FilterNext]_vars

\* ------------------------------------------------- storage.filename alone
\* the values of Math.random() of a run: the first and the last MaxDraw
\* steps of its range
RandomDraws ==
    (0..(MaxDraw - 1)) \cup ((RandomSteps - MaxDraw)..(RandomSteps - 1))

\* original names: with an extension, in mixed case, with two dots, without
\* an extension, beginning or ending with the dot
OriginalNames == {
    <<"a",".","p","n","g">>,
    <<"A",".","P","n","G">>,
    <<"a",".","t",".","g","z">>,
    <<"a">>,
    <<".","p","n","g">>,
    <<"a",".">>,
    <<".",".","a">> }

\* storage.filename names the one file of the run
NameProbe ==
    /\ named = NoNamed
    /\ \E timestamp \in 1..MaxTime, h \in RandomDraws,
          originalname \in OriginalNames :
         LET random == RoundRandom(h)
             file == [originalname |-> originalname, mimetype |-> "image/png",
                      data |-> "d1", size |-> 1]
         IN named' = [timestamp |-> timestamp, draw |-> h, random |-> random,
                      originalname |-> originalname,
                      filename |-> filename(timestamp, random, file)]
    /\ UNCHANGED <<serverVars, probe, pageVars>>

NameNext == NameProbe

NameSpec == Init /\ [][NameNext]_vars

\* ------------------------------------------------------- the browser page
\* The page is taken from the moment its DOMContentLoaded handler has run:
\* the click listener is on the button and the canvas is initialised.
canvasInitialised == TRUE

\* the runs between isUploading = true and the finally block
Active == { h \in Runs : runs[h].pc \in {"fetch", "json", "errjson", "image"} }

\* the runs whose uploadPhoto call has not returned or thrown
Pending == { h \in Runs : runs[h].pc \in {"fetch", "json", "errjson"} }

\* The user chooses a file in the file input.
SelectFile ==
    /\ ~fileInput
    /\ fileInput' = TRUE
    /\ UNCHANGED <<isUploading, uploadBtn, runs>>

\* the run returns before the try block
ReturnEarly(h, via, outcome) ==
    /\ runs' = [runs EXCEPT ![h] = [pc |-> "done", via |-> via,
                                    outcome |-> outcome, originalText |-> ""]]
    /\ UNCHANGED <<isUploading, uploadBtn, fileInput>>

\* handleUpload without its second look at the flag
UploadRunningNever == FALSE

\* the second look of handleUpload at the flag
UploadRunning == isUploading

\* handleUpload up to its first await: no file selected, alert and return;
\* an upload in progress, return; otherwise the button is disabled, the flag
\* set and uploadPhoto called, which awaits fetch()
handleUpload(h, via) ==
    IF ~fileInput THEN ReturnEarly(h, via, "nofile")
    ELSE IF UploadRunning THEN ReturnEarly(h, via, "aborted")
    ELSE /\ uploadBtn' = [disabled |-> TRUE, textContent |-> "Uploading..."]
         /\ isUploading' = TRUE
         /\ runs' = [runs EXCEPT ![h] =
                       [pc |-> "fetch", via |-> via, outcome |-> "",
                        originalText |-> uploadBtn.textContent]]
         /\ fileInput' = fileInput

\* the next run of handleUpload
NextRun(h) ==
    /\ runs[h].pc = "new"
    /\ \A g \in Runs : g < h => runs[g].pc # "new"

\* A click event reaches handleUploadClick: ignored while the flag is set,
\* otherwise handleUpload is called.
handleUploadClick(h) ==
    /\ NextRun(h)
    /\ IF isUploading THEN ReturnEarly(h, "click", "ignored")
       ELSE handleUpload(h, "click")

\* window.handleUpload is called directly.
DirectCall(h) ==
    /\ NextRun(h)
    /\ handleUpload(h, "call")

\* the flag after the finally block of a run
FinallyFlagOnSuccess(outcome) == outcome # "success"

FinallyFlag(outcome) == FALSE

\* the end of a run that entered the try block: the catch block for a
\* failure, then the finally block resets the flag and the button
Finally(h, outcome) ==
    /\ isUploading' = FinallyFlag(outcome)
    /\ uploadBtn' = [disabled |-> FinallyFlag(outcome),
                     textContent |-> runs[h].originalText]
    /\ runs' = [runs EXCEPT ![h].pc = "done", ![h].outcome = outcome]

\* fetch() of uploadPhoto settles: rejected (no network), or a response
\* that is ok or not, whose body is then read with response.json()
FetchSettles(h) ==
    /\ runs[h].pc = "fetch"
    /\ \E settled \in {"rejected", "ok", "notok"} :
         IF settled = "rejected"
         THEN Finally(h, "failed") /\ fileInput' = fileInput
         ELSE /\ runs' = [runs EXCEPT ![h].pc =
                             IF settled = "ok" THEN "json" ELSE "errjson"]
              /\ UNCHANGED <<isUploading, uploadBtn, fileInput>>

\* response.json() of an ok response settles: a result with success, and
\* handleUpload clears the file input and awaits displayImageInCanvas; a
\* result without success or no JSON, and uploadPhoto throws
JsonSettles(h) ==
    /\ runs[h].pc = "json"
    /\ \E result \in {"success", "nosuccess", "nojson"} :
         IF result = "success"
         THEN /\ fileInput' = FALSE
              /\ IF canvasInitialised
                 THEN /\ runs' = [runs EXCEPT ![h].pc = "image"]
                      /\ UNCHANGED <<isUploading, uploadBtn>>
                 ELSE Finally(h, "success")
         ELSE Finally(h, "failed") /\ fileInput' = fileInput

\* response.json() of a failed response settles, with or without a body
\* that parses: uploadPhoto throws
ErrJsonSettles(h) ==
    /\ runs[h].pc = "errjson"
    /\ Finally(h, "failed")
    /\ fileInput' = fileInput

\* the image of displayImageInCanvas settles: onload and it is drawn, or
\* onerror and the catch block of displayImageInCanvas draws the error;
\* either way displayImageInCanvas returns and handleUpload ends
ImageSettles(h) ==
    /\ runs[h].pc = "image"
    /\ \E loaded \in BOOLEAN :
         Finally(h, IF loaded THEN "success" ELSE "displayfailed")
    /\ fileInput' = fileInput

\* a promise a run awaits settles
Settle(h) ==
    /\ \/ FetchSettles(h)
       \/ JsonSettles(h)
       \/ ErrJsonSettles(h)
       \/ ImageSettles(h)
    /\ UNCHANGED <<serverVars, probe, named>>

PageNext ==
    /\ \/ SelectFile
       \/ \E h \in Runs : handleUploadClick(h)
       \/ \E h \in Runs : DirectCall(h)
       \/ \E h \in Runs : FetchSettles(h)
       \/ \E h \in Runs : JsonSettles(h)
       \/ \E h \in Runs : ErrJsonSettles(h)
       \/ \E h \in Runs : ImageSettles(h)
    /\ UNCHANGED <<serverVars, probe, named>>

PageSpec == Init /\ [][PageNext]_vars

\* every promise a run awaits settles in the end
PageFairSpec == PageSpec /\ \A h \in Runs : WF_vars(Settle(h))

\* ================================================================ claims
Done(r) == reqs[r].pc = "done"

\* an accepted file: allow-listed type or extension, at most 10 MiB
Accepted(file) == file # NoFile /\ fileFilter(file) /\ file.size <= fileSize

\* no POST /upload is between its arrival and its answer
Quiescent == \A r \in Reqs : ~InFlight(r)

\* the bytes of an uploaded file
Bytes(file) == [data |-> file.data, size |-> file.size]

\* p is the storage directory or lies below it
Inside(p) ==
    \/ p = uploadDir
    \/ /\ Len(p) > Len(uploadDir)
       /\ SubSeq(p, 1, Len(uploadDir) + 1) = uploadDir \o <<"/">>

\* C1: once a POST /upload of a client has been answered, whichever way its
\* handling ended, uploadSessions has no entry for that client.
C1_GateReleased ==
    \A r \in Reqs : Done(r) => reqs[r].ip \notin DOMAIN uploadSessions

\* C2: a POST /upload that arrives while uploadSessions has an entry for its
\* client is answered 429 and no file of it is named, written or validated
\* into the storage directory.
C2_ConflictHasNoEffect ==
    \A r \in Reqs :
        (reqs[r].pc # "new" /\ reqs[r].hadEntry) =>
            /\ reqs[r].pc \in {"handler", "done"}
            /\ reqs[r].filename = <<>>
            /\ Done(r) => reqs[r].resp.status = 429

\* C3: of two POST /upload requests of one client with accepted files, the
\* second arriving before the first is answered, exactly one is answered
\* with success and the other with 429 (runs in which a handler throws set
\* aside).
C3_OneOfTwoSucceeds ==
    \A r1, r2 \in Reqs :
        ( /\ r1 \in reqs[r2].overlap
          /\ Done(r1) /\ Done(r2)
          /\ Accepted(reqs[r1].file) /\ Accepted(reqs[r2].file)
          /\ reqs[r1].resp.status # 500 /\ reqs[r2].resp.status # 500 )
        => \/ reqs[r1].resp.status = 200 /\ reqs[r2].resp.status = 429
           \/ reqs[r1].resp.status = 429 /\ reqs[r2].resp.status = 200

\* the name ends, letters compared without case, with "." and an
\* allow-listed extension
EndsWithAllowedExt(name) ==
    \E e \in allowedExts :
        LET suffix == <<".">> \o e
            n == Len(name)
        IN /\ n >= Len(suffix)
           /\ [k \in 1..Len(suffix) |-> ToLower(name[n - Len(suffix) + k])]
                  = suffix

\* C4: fileFilter accepts a file if and only if its mime type is in the
\* allow-list or its original name ends, without regard to case, with an
\* allow-listed extension.
C4_FilterAcceptsIff ==
    probe # NoProbe =>
        ( probe.accepted <=>
            ( probe.file.mimetype \in allowedTypes
              \/ EndsWithAllowedExt(probe.file.originalname) ) )

\* C4 witness: a file of unlisted mime type is accepted for its upper-case
\* extension.
C4_Witness ==
    /\ probe.accepted
    /\ probe.file.mimetype = "text/plain"
    /\ probe.file.originalname = <<"x", ".", "O", "b", "j">>

\* C5: a POST /upload without a file, or with a file that matches neither
\* allow-list, is answered 400 with success false.
C5_ValidationErrorIs400 ==
    \A r \in Reqs :
        (Done(r) /\ (reqs[r].file = NoFile \/ ~fileFilter(reqs[r].file))) =>
            reqs[r].resp.status = 400 /\ ~reqs[r].resp.success

\* C6: a POST /upload whose file is longer than 10 MiB is answered 400 with
\* the 'File too large' message, whatever its type and extension.
C6_OversizeIsTooLarge ==
    \A r \in Reqs :
        (Done(r) /\ reqs[r].file # NoFile /\ reqs[r].file.size > fileSize) =>
            reqs[r].resp.status = 400 /\ reqs[r].resp.error = MsgTooLarge

\* C7: a GET /uploads/:filename whose joined path is not inside the storage
\* directory is answered 403 without a body, and no answer serves a file
\* outside the storage directory.
C7_OutsideIsDenied ==
    getResp.status # 0 =>
        /\ ~Inside(PathJoin(uploadDir, getResp.name)) =>
               getResp.status = 403 /\ getResp.body = NoContent
        /\ getResp.status = 200 => Inside(getResp.path)

\* the :filename of a url /uploads/<name>
NameOfUrl(url) == SubSeq(url, 10, Len(url))

\* C8: a POST /upload with an accepted file is answered with success and
\* url = '/uploads/' + filename, and a GET of that url at any later moment
\* returns the uploaded bytes (answers 500 set aside).
C8_UrlReturnsUploadedBytes ==
    \A r \in Reqs :
        (Done(r) /\ Accepted(reqs[r].file) /\ reqs[r].resp.status # 500) =>
            /\ reqs[r].resp.status = 200
            /\ reqs[r].resp.url = UrlOf(reqs[r].resp.filename)
            /\ GetResponse(NameOfUrl(reqs[r].resp.url)).status = 200
            /\ GetResponse(NameOfUrl(reqs[r].resp.url)).body
                   = Bytes(reqs[r].file)

\* C9: with no POST /upload in flight, GET /uploads of the whole directory
\* answers count = the number of requests answered with success and one
\* entry, with its byte size, per such request.
C9_ListCountsSuccesses ==
    ( /\ listResp.status = 200
      /\ Quiescent
      /\ { f.name : f \in listResp.files } = DOMAIN disk )
    => /\ listResp.count =
              Cardinality({ r \in Reqs : reqs[r].resp.status = 200 })
       /\ \A r \in Reqs :
              reqs[r].resp.status = 200 =>
                  [name |-> reqs[r].resp.filename,
                   url  |-> reqs[r].resp.url,
                   size |-> reqs[r].file.size] \in listResp.files

\* C10: while a file of a request is being written to the storage directory
\* uploadSessions has an entry for the client of the request.
C10_EntryBeforeProcessing ==
    \A r \in Reqs :
        reqs[r].pc = "writing" => reqs[r].ip \in DOMAIN uploadSessions

\* C11: every stored name is <timestamp> "-" <r> <extension> with r an
\* integer, 0 <= r < 1E9, and the extension that of the original name.
C11_NameForm ==
    named # NoNamed =>
        /\ 0 <= named.random /\ named.random < RandomScale
        /\ named.filename =
               ToStr(named.timestamp) \o <<"-">> \o ToStr(named.random)
                   \o ExtName(named.originalname)

\* C12: at most one uploadPhoto request is in flight, no run starts one
\* while another run holds the flag, and the flag is set for as long as a
\* request of handleUpload is pending.
C12_OneUploadInFlight ==
    /\ Cardinality(Pending) <= 1
    /\ Cardinality(Active) <= 1
    /\ Active # {} => isUploading

\* C12 witness: a request is pending and handleUpload, called directly in
\* the meantime, has returned without starting another.
C12_Witness ==
    /\ Pending # {}
    /\ \E h \in Runs : runs[h].via = "call" /\ runs[h].outcome = "aborted"

====
